---- MODULE Spec2Model ----
(***************************************************************************)
(* Model of rust_src/src/eval_macros.rs: the macros a Rust caller uses to  *)
(* call Lisp functions (call!, call_raw!), build lists (list!), signal     *)
(* conditions (xsignal!, error!, wrong_type!, args_out_of_range!), verify  *)
(* types (verify_lisp_type!) and read buffer_local_flags                   *)
(* (per_buffer_var_idx!).                                                  *)
(*                                                                         *)
(* A macro expansion is an operator over a machine record m:               *)
(*   heap   the cons cells of the evaluator (address = index)              *)
(*   strs   the Lisp strings of the evaluator (address = index)            *)
(*   calls  the C primitives entered during this expansion, in order       *)
(*   ctl    "running", or "unwound" once a signal has left the Rust frame  *)
(*   val    the value of the expression just evaluated                     *)
(*   quit_returns, apply   what the evaluator will do (chosen per call)    *)
(***************************************************************************)
EXTENDS Integers, Sequences, FiniteSets, TLC

VARIABLES pc, op, calls, heap, strs, result, base, buffer_local_flags

vars == <<pc, op, calls, heap, strs, result, base, buffer_local_flags>>

(* ---------------------------------------------------------------- bounds *)
MaxArgs == 2
MaxPre == 1
CharMargin == 2

(* multibyte::MAX_CHAR, (1 << 22) - 1 *)
MAX_CHAR == 4194303

(* ------------------------------------------------- Lisp_Object, raw form *)
RawSym(s) == [tag |-> "symbol", sym |-> s, n |-> 0]
RawInt(i) == [tag |-> "fixnum", sym |-> "", n |-> i]
RawCons(a) == [tag |-> "cons", sym |-> "", n |-> a]
RawStr(a) == [tag |-> "string", sym |-> "", n |-> a]
RawVec(a) == [tag |-> "vector", sym |-> "", n |-> a]

Qnil == RawSym("nil")
Qt == RawSym("t")
Qerror == RawSym("error")
Qquit == RawSym("quit")
Qwrong_type_argument == RawSym("wrong-type-argument")
Qargs_out_of_range == RawSym("args-out-of-range")
Qarrayp == RawSym("arrayp")
Qstringp == RawSym("stringp")
Qcharacterp == RawSym("characterp")
Qwholenump == RawSym("wholenump")

(* The unit value () of a macro used as a statement. *)
Unit == [tag |-> "unit", sym |-> "", n |-> 0]

(* ------------------------------------------- LispObject, the Rust wrapper *)
from_raw(i) == [raw |-> i]
to_raw(obj) == obj.raw
constant_nil == from_raw(Qnil)
LispObject_from(n) == from_raw(RawInt(n))

is_string(obj) == to_raw(obj).tag = "string"
is_array(obj) == to_raw(obj).tag \in {"vector", "string", "char_table", "bool_vector"}
is_natnum(obj) == to_raw(obj).tag = "fixnum" /\ to_raw(obj).n >= 0

(* ------------------------------------------------- evaluator primitives *)
(* Fsignal: enters the handler search; comes back only for quit, when the  *)
(* debugger was entered and left with "continue".                          *)
Fsignal(m, error_symbol, data) ==
  [m EXCEPT !.calls = Append(@, [prim |-> "Fsignal",
                                 error_symbol |-> error_symbol,
                                 data |-> data]),
            !.ctl = IF error_symbol = Qquit /\ m.quit_returns
                    THEN "running" ELSE "unwound",
            !.val = Qnil]

(* Ffuncall: applies args[1] to the rest; the callee returns a value or    *)
(* signals.                                                                *)
Ffuncall(m, nargs, args) ==
  [m EXCEPT !.calls = Append(@, [prim |-> "Ffuncall",
                                 nargs |-> nargs,
                                 args |-> args]),
            !.ctl = IF m.apply.signals THEN "unwound" ELSE "running",
            !.val = m.apply.ret]

(* make_string: a new Lisp string holding the first nbytes bytes at        *)
(* contents; a byte past the end of the buffer reads as "?".               *)
make_string(m, contents, nbytes) ==
  [m EXCEPT !.calls = Append(@, [prim |-> "make_string",
                                 contents |-> contents,
                                 nbytes |-> nbytes]),
            !.strs = Append(@, [i \in 1..nbytes |->
                                  IF i <= Len(contents) THEN contents[i] ELSE "?"]),
            !.val = RawStr(Len(m.strs) + 1)]

(* LispObject::cons: one new cell holding the two raw words.               *)
cons(m, car, cdr) ==
  [m EXCEPT !.heap = Append(@, [car |-> to_raw(car), cdr |-> to_raw(cdr)]),
            !.val = from_raw(RawCons(Len(m.heap) + 1))]

(* LispObject::as_natnum_or_error *)
as_natnum_or_error(m, obj) ==
  IF is_natnum(obj)
  THEN [m EXCEPT !.val = to_raw(obj).n]
  ELSE LET c2 == cons(m, obj, constant_nil)
           c1 == cons(c2, from_raw(Qwholenump), c2.val)
       IN Fsignal(c1, Qwrong_type_argument, to_raw(c1.val))

(* ------------------------------------------------------ host formatting *)
Digit(d) == <<"0", "1", "2", "3", "4", "5", "6", "7", "8", "9">>[d + 1]

RECURSIVE Decimal(_)
Decimal(n) == IF n < 10 THEN <<Digit(n)>> ELSE Append(Decimal(n \div 10), Digit(n % 10))

(* Display of an integer argument. *)
Display(n) == IF n < 0 THEN <<"-">> \o Decimal(-n) ELSE Decimal(n)

(* format!: "{}" takes the next argument, "{{" and "}}" are the braces.    *)
RECURSIVE format(_, _)
format(fmtstr, args) ==
  IF fmtstr = <<>> THEN <<>>
  ELSE IF Len(fmtstr) >= 2 /\ fmtstr[1] = "{" /\ fmtstr[2] = "{"
       THEN <<"{">> \o format(SubSeq(fmtstr, 3, Len(fmtstr)), args)
  ELSE IF Len(fmtstr) >= 2 /\ fmtstr[1] = "}" /\ fmtstr[2] = "}"
       THEN <<"}">> \o format(SubSeq(fmtstr, 3, Len(fmtstr)), args)
  ELSE IF Len(fmtstr) >= 2 /\ fmtstr[1] = "{" /\ fmtstr[2] = "}"
       THEN Display(Head(args)) \o format(SubSeq(fmtstr, 3, Len(fmtstr)), Tail(args))
  ELSE <<fmtstr[1]>> \o format(Tail(fmtstr), args)

(* ------------------------------------------------------------ the macros *)
(* list! folding from the left: the last value ends up outermost.          *)
RECURSIVE list_backwards(_, _)
list_backwards(m, tt) ==
  IF tt = <<>>
  THEN [m EXCEPT !.val = constant_nil]
  ELSE LET rest == list_backwards(m, SubSeq(tt, 1, Len(tt) - 1))
       IN cons(rest, tt[Len(tt)], rest.val)

(* list!: the head is evaluated, then the rest of the list, then the cell  *)
(* holding both is allocated.                                              *)
RECURSIVE list(_, _)
list(m, tt) ==
  IF tt = <<>>
  THEN [m EXCEPT !.val = constant_nil]
  ELSE LET rest == list(m, Tail(tt))
       IN cons(rest, Head(tt), rest.val)

(* xsignal!($symbol) handing the symbol where the data belongs.            *)
xsignal0_symbol_as_data(m, symbol) ==
  LET s == Fsignal(m, symbol, symbol)
  IN [s EXCEPT !.val = Unit]

(* xsignal!($symbol) *)
xsignal0(m, symbol) ==
  LET s == Fsignal(m, symbol, Qnil)
  IN [s EXCEPT !.val = Unit]

(* xsignal!($symbol, $($tt)+) signalling without the data, as the first    *)
(* arm does.                                                               *)
xsignal_without_data(m, symbol, tt) ==
  LET s == Fsignal(m, symbol, Qnil)
  IN [s EXCEPT !.val = Unit]

(* xsignal!($symbol, $($tt)+) *)
xsignal(m, symbol, tt) ==
  LET l == list(m, tt)
      s == Fsignal(l, symbol, to_raw(l.val))
  IN [s EXCEPT !.val = Unit]

(* call! with a frame of the arguments alone, as callN_raw! builds it.     *)
call_without_func(m, func, args) ==
  LET argsarray == [i \in 1..Len(args) |-> to_raw(args[i])]
      r == Ffuncall(m, Len(argsarray), argsarray)
  IN IF r.ctl = "running" THEN [r EXCEPT !.val = from_raw(r.val)] ELSE r

(* call!($func, $($arg),* ) *)
call(m, func, args) ==
  LET argsarray == <<to_raw(func)>> \o [i \in 1..Len(args) |-> to_raw(args[i])]
      r == Ffuncall(m, Len(argsarray), argsarray)
  IN IF r.ctl = "running" THEN [r EXCEPT !.val = from_raw(r.val)] ELSE r

(* call_raw! with a frame of the arguments alone, as callN_raw! builds it. *)
call_raw_without_func(m, func, args) ==
  LET argsarray == args
      r == Ffuncall(m, Len(argsarray), argsarray)
  IN IF r.ctl = "running" THEN [r EXCEPT !.val = from_raw(r.val)] ELSE r

(* call_raw!($func, $($arg),* ) *)
call_raw(m, func, args) ==
  LET argsarray == <<func>> \o args
      r == Ffuncall(m, Len(argsarray), argsarray)
  IN IF r.ctl = "running" THEN [r EXCEPT !.val = from_raw(r.val)] ELSE r

(* call_raw!($func) *)
call_raw1(m, func) ==
  LET r == Ffuncall(m, 1, <<func>>)
  IN IF r.ctl = "running" THEN [r EXCEPT !.val = from_raw(r.val)] ELSE r

(* error!($str) counting a terminator byte.                                *)
error_str_with_nul(m, str) ==
  LET strobj == make_string(m, str, Len(str) + 1)
  IN xsignal(strobj, Qerror, <<from_raw(strobj.val)>>)

(* error!($str) *)
error_str(m, str) ==
  LET strobj == make_string(m, str, Len(str))
  IN xsignal(strobj, Qerror, <<from_raw(strobj.val)>>)

(* error!($fmtstr, ...) counting a terminator byte.                        *)
error_fmt_with_nul(m, fmtstr, args) ==
  LET formatted == format(fmtstr, args)
      strobj == make_string(m, formatted, Len(formatted) + 1)
  IN xsignal(strobj, Qerror, <<from_raw(strobj.val)>>)

(* error!($fmtstr, $($arg),* ) *)
error_fmt(m, fmtstr, args) ==
  LET formatted == format(fmtstr, args)
      strobj == make_string(m, formatted, Len(formatted))
  IN xsignal(strobj, Qerror, <<from_raw(strobj.val)>>)

(* wrong_type!($pred, $arg) *)
wrong_type(m, pred, arg) ==
  xsignal(m, Qwrong_type_argument, <<from_raw(pred), arg>>)

(* args_out_of_range!($($tt)+) *)
args_out_of_range(m, tt) == xsignal(m, Qargs_out_of_range, tt)

(* verify_lisp_type!($obj, Qarrayp) testing is_string, as the Qstringp arm *)
(* does.                                                                   *)
verify_arrayp_by_is_string(m, obj) ==
  IF ~is_string(obj) THEN wrong_type(m, Qarrayp, obj) ELSE [m EXCEPT !.val = Unit]

(* verify_lisp_type!($obj, Qarrayp) *)
verify_lisp_type_Qarrayp(m, obj) ==
  IF ~is_array(obj) THEN wrong_type(m, Qarrayp, obj) ELSE [m EXCEPT !.val = Unit]

(* verify_lisp_type!($n, Qcharacterp) with MAX_CHAR itself refused.        *)
verify_characterp_exclusive(m, n) ==
  IF n < 0 \/ n >= MAX_CHAR
  THEN wrong_type(m, Qcharacterp, LispObject_from(n))
  ELSE [m EXCEPT !.val = Unit]

(* verify_lisp_type!($n, Qcharacterp) *)
verify_lisp_type_Qcharacterp(m, n) ==
  IF n < 0 \/ n > MAX_CHAR
  THEN wrong_type(m, Qcharacterp, LispObject_from(n))
  ELSE [m EXCEPT !.val = Unit]

(* verify_lisp_type!($obj, Qstringp) *)
verify_lisp_type_Qstringp(m, obj) ==
  IF ~is_string(obj) THEN wrong_type(m, Qstringp, obj) ELSE [m EXCEPT !.val = Unit]

(* per_buffer_var_idx!($field) taking the integer without the check.       *)
per_buffer_var_idx_unchecked(m, field) ==
  [m EXCEPT !.val = buffer_local_flags[field].n]

(* per_buffer_var_idx!($field) *)
per_buffer_var_idx(m, field) ==
  as_natnum_or_error(m, from_raw(buffer_local_flags[field]))

(* ---------------------------------------------------------------- inputs *)
Objects == {from_raw(Qnil), from_raw(RawInt(5)), from_raw(RawStr(0)), from_raw(RawVec(0))}
Conditions == {Qerror, Qwrong_type_argument, Qargs_out_of_range, Qquit}
Functions == {from_raw(RawSym("car")), from_raw(RawSym("identity"))}
Returns == {Qnil, RawInt(7)}

SeqsUpTo(S, lo, hi) == UNION {[1..k -> S] : k \in lo..hi}

BadValue == <<"b", "a", "d", " ", "v", "a", "l", "u", "e">>
Literals == {<<>>, BadValue, <<"{", "}">>, <<"a">>}
Formats == {[fmtstr |-> BadValue \o <<":", " ", "{", "}">>, args |-> <<5>>],
            [fmtstr |-> <<"{", "}", "{", "}">>, args |-> <<-1, 10>>],
            [fmtstr |-> <<"{", "{", "{", "}", "}", "}">>, args |-> <<120>>],
            [fmtstr |-> <<"n", "o", "{", "{">>, args |-> <<>>]}
CharInputs == (-CharMargin..CharMargin) \cup ((MAX_CHAR - CharMargin)..(MAX_CHAR + CharMargin))

Fields == {"mode_line_format", "filename"}
FlagValues == {RawInt(0), RawInt(3), RawInt(-1), Qnil, RawStr(0)}

Oracles == [signals : BOOLEAN, ret : Returns]
NoApply == [signals |-> FALSE, ret |-> Qnil]

(* ------------------------------------------------------------------ Init *)
Init ==
  /\ pc = "idle"
  /\ op = [macro |-> "none"]
  /\ calls = <<>>
  /\ \E k \in 0..MaxPre :
       /\ heap = [i \in 1..k |-> [car |-> Qt, cdr |-> Qnil]]
       /\ strs = [i \in 1..k |-> <<"o", "l", "d">>]
       /\ base = [heap |-> k, strs |-> k]
  /\ result = Unit
  /\ buffer_local_flags \in [Fields -> FlagValues]

(* The machine a macro expansion starts in. *)
Enter(quit_returns, apply) ==
  [heap |-> heap, strs |-> strs, calls |-> <<>>, ctl |-> "running", val |-> Unit,
   quit_returns |-> quit_returns, apply |-> apply]

(* The expansion is over: the caller goes on, or the stack was unwound.    *)
Leave(o, m) ==
  /\ pc = "idle"
  /\ pc' = IF m.ctl = "unwound" THEN "unwound" ELSE "returned"
  /\ op' = o
  /\ calls' = m.calls
  /\ heap' = m.heap
  /\ strs' = m.strs
  /\ result' = IF m.ctl = "unwound" THEN Unit ELSE m.val
  /\ UNCHANGED <<base, buffer_local_flags>>

(* --------------------------------------------------------------- actions *)
List ==
  \E tt \in SeqsUpTo(Objects, 0, MaxArgs + 1) :
    Leave([macro |-> "list", tt |-> tt], list(Enter(FALSE, NoApply), tt))

Xsignal0 ==
  \E symbol \in Conditions, q \in BOOLEAN :
    Leave([macro |-> "xsignal0", symbol |-> symbol, quit_returns |-> q],
          xsignal0(Enter(q, NoApply), symbol))

Xsignal ==
  \E symbol \in Conditions, tt \in SeqsUpTo(Objects, 1, MaxArgs), q \in BOOLEAN :
    Leave([macro |-> "xsignal", symbol |-> symbol, tt |-> tt, quit_returns |-> q],
          xsignal(Enter(q, NoApply), symbol, tt))

Call ==
  \E func \in Functions, args \in SeqsUpTo(Objects, 0, MaxArgs), a \in Oracles :
    Leave([macro |-> "call", func |-> func, args |-> args, apply |-> a],
          call(Enter(FALSE, a), func, args))

CallRaw ==
  \E func \in Functions, args \in SeqsUpTo(Objects, 0, MaxArgs), a \in Oracles :
    LET rawargs == [i \in 1..Len(args) |-> to_raw(args[i])]
    IN Leave([macro |-> "call_raw", func |-> to_raw(func), args |-> rawargs, apply |-> a],
             call_raw(Enter(FALSE, a), to_raw(func), rawargs))

CallRaw1 ==
  \E func \in Functions, a \in Oracles :
    Leave([macro |-> "call_raw1", func |-> to_raw(func), apply |-> a],
          call_raw1(Enter(FALSE, a), to_raw(func)))

ErrorStr ==
  \E str \in Literals :
    Leave([macro |-> "error_str", str |-> str], error_str(Enter(FALSE, NoApply), str))

ErrorFmt ==
  \E f \in Formats :
    Leave([macro |-> "error_fmt", fmtstr |-> f.fmtstr, args |-> f.args],
          error_fmt(Enter(FALSE, NoApply), f.fmtstr, f.args))

ArgsOutOfRange ==
  \E tt \in SeqsUpTo(Objects, 1, MaxArgs) :
    Leave([macro |-> "args_out_of_range", tt |-> tt],
          args_out_of_range(Enter(FALSE, NoApply), tt))

VerifyArrayp ==
  \E obj \in Objects :
    Leave([macro |-> "verify_arrayp", obj |-> obj],
          verify_lisp_type_Qarrayp(Enter(FALSE, NoApply), obj))

VerifyStringp ==
  \E obj \in Objects :
    Leave([macro |-> "verify_stringp", obj |-> obj],
          verify_lisp_type_Qstringp(Enter(FALSE, NoApply), obj))

VerifyCharacterp ==
  \E n \in CharInputs :
    Leave([macro |-> "verify_characterp", n |-> n],
          verify_lisp_type_Qcharacterp(Enter(FALSE, NoApply), n))

PerBufferVarIdx ==
  \E field \in Fields :
    Leave([macro |-> "per_buffer_var_idx", field |-> field],
          per_buffer_var_idx(Enter(FALSE, NoApply), field))

(* What the expansion allocated is garbage once the command is over; the   *)
(* collector takes it back.                                                *)
Collected ==
  /\ heap' = SubSeq(heap, 1, base.heap)
  /\ strs' = SubSeq(strs, 1, base.strs)

(* The statement of the caller that follows the macro. *)
Continue ==
  /\ pc = "returned"
  /\ pc' = "idle"
  /\ op' = [macro |-> "none"]
  /\ calls' = <<>>
  /\ result' = Unit
  /\ Collected
  /\ UNCHANGED <<base, buffer_local_flags>>

(* A condition handler of the evaluator took the signal; the command loop  *)
(* runs the next command.                                                  *)
Handler ==
  /\ pc = "unwound"
  /\ pc' = "idle"
  /\ op' = [macro |-> "none"]
  /\ calls' = <<>>
  /\ result' = Unit
  /\ Collected
  /\ UNCHANGED <<base, buffer_local_flags>>

Next ==
  \/ List
  \/ Xsignal0
  \/ Xsignal
  \/ Call
  \/ CallRaw
  \/ CallRaw1
  \/ ErrorStr
  \/ ErrorFmt
  \/ ArgsOutOfRange
  \/ VerifyArrayp
  \/ VerifyStringp
  \/ VerifyCharacterp
  \/ PerBufferVarIdx
  \/ Continue
  \/ Handler

Spec == Init /\ [][Next]_vars

(* ------------------------------------------------- reading a final state *)
(* r is the chain cons(elems[1], cons(elems[2], ... nil)) in heap h.       *)
RECURSIVE IsList(_, _, _)
IsList(h, r, elems) ==
  IF elems = <<>>
  THEN r = Qnil
  ELSE /\ r.tag = "cons"
       /\ r.n \in 1..Len(h)
       /\ h[r.n].car = Head(elems)
       /\ IsList(h, h[r.n].cdr, Tail(elems))

RawsOf(objs) == [i \in 1..Len(objs) |-> objs[i].raw]

Invoked(macros) == pc # "idle" /\ op.macro \in macros

(* The machine the expansion in op started in. *)
Entered(quit_returns, apply) ==
  [heap |-> SubSeq(heap, 1, base.heap), strs |-> SubSeq(strs, 1, base.strs),
   calls |-> <<>>, ctl |-> "running", val |-> Unit,
   quit_returns |-> quit_returns, apply |-> apply]

Allocated == Len(heap) - base.heap

OneSignal(symbol, elems) ==
  /\ Len(calls) = 1
  /\ calls[1].prim = "Fsignal"
  /\ calls[1].error_symbol = symbol
  /\ IsList(heap, calls[1].data, elems)

(* ---------------------------------------------------------------- claims *)

(* C1, as stated: xsignal!(sym) and xsignal!(sym, data) never return to    *)
(* the caller, for every condition symbol sym.                             *)
C1_Original ==
  Invoked({"xsignal0", "xsignal"}) => pc = "unwound"

(* C1, amended: xsignal! enters Fsignal exactly once, with exactly the     *)
(* symbol passed and the list built from the data; for every symbol other  *)
(* than quit control never comes back to the caller.                       *)
C1_SignalOnceAndDiverge ==
  Invoked({"xsignal0", "xsignal"}) =>
    /\ OneSignal(op.symbol, IF op.macro = "xsignal0" THEN <<>> ELSE RawsOf(op.tt))
    /\ op.symbol # Qquit => pc = "unwound"
    /\ pc = "returned" => op.symbol = Qquit /\ op.quit_returns

C1_Witness ==
  /\ pc = "unwound"
  /\ op.macro = "xsignal"
  /\ op.symbol = Qargs_out_of_range
  /\ Len(op.tt) = 2
  /\ op.tt[1] # op.tt[2]

(* C2: list!(v1, ..., vn) is cons(v1, cons(v2, ... cons(vn, nil))): order  *)
(* kept, v1 in the outermost cell, exactly n cells allocated, and list!()  *)
(* is nil.                                                                 *)
C2_ListIsRightChain ==
  Invoked({"list"}) =>
    /\ pc = "returned"
    /\ calls = <<>>
    /\ IsList(heap, result.raw, RawsOf(op.tt))
    /\ Allocated = Len(op.tt)
    /\ \A i \in 1..base.heap : heap[i] = [car |-> Qt, cdr |-> Qnil]
    /\ op.tt = <<>> => result = [raw |-> Qnil]
    /\ op.tt # <<>> => heap[result.raw.n].car = op.tt[1].raw

C2_Witness ==
  /\ pc = "returned"
  /\ op.macro = "list"
  /\ Len(op.tt) = 3
  /\ op.tt[1] # op.tt[2]
  /\ op.tt[2] # op.tt[3]
  /\ base.heap > 0

(* C3: call!(f, args) enters Ffuncall exactly once with the frame          *)
(* [f, a1, ..., an] in raw form, in that order, with count 1 + n, and      *)
(* returns what Ffuncall returned, converted back.                         *)
C3_CallFrame ==
  Invoked({"call"}) =>
    /\ Len(calls) = 1
    /\ calls[1].prim = "Ffuncall"
    /\ calls[1].nargs = 1 + Len(op.args)
    /\ Len(calls[1].args) = 1 + Len(op.args)
    /\ calls[1].args[1] = op.func.raw
    /\ \A i \in 1..Len(op.args) : calls[1].args[i + 1] = op.args[i].raw
    /\ pc = "returned" <=> ~op.apply.signals
    /\ pc = "returned" => result = [raw |-> op.apply.ret]
    /\ Allocated = 0

C3_Witness ==
  /\ pc = "returned"
  /\ op.macro = "call"
  /\ Len(op.args) = 2
  /\ op.args[1] # op.args[2]
  /\ op.apply.ret # Qnil

(* C4: verify_lisp_type! for Qarrayp and Qstringp does nothing when the    *)
(* predicate holds; otherwise it signals wrong-type-argument with the data *)
(* (predicate symbol, value) and does not return.                          *)
C4_VerifyType ==
  Invoked({"verify_arrayp", "verify_stringp"}) =>
    LET holds == IF op.macro = "verify_arrayp"
                 THEN op.obj.raw.tag \in {"vector", "string", "char_table", "bool_vector"}
                 ELSE op.obj.raw.tag = "string"
        sym == IF op.macro = "verify_arrayp" THEN Qarrayp ELSE Qstringp
    IN IF holds
       THEN pc = "returned" /\ calls = <<>> /\ Allocated = 0
       ELSE /\ pc = "unwound"
            /\ OneSignal(Qwrong_type_argument, <<sym, op.obj.raw>>)
            /\ Allocated = 2

C4_Witness ==
  /\ pc = "unwound"
  /\ op.macro = "verify_stringp"
  /\ op.obj = [raw |-> RawVec(0)]

(* C5: the character check passes n exactly when 0 <= n <= MAX_CHAR; any   *)
(* other n signals wrong-type-argument with the data (characterp, n).      *)
C5_CharacterRange ==
  Invoked({"verify_characterp"}) =>
    IF 0 <= op.n /\ op.n <= MAX_CHAR
    THEN pc = "returned" /\ calls = <<>> /\ Allocated = 0
    ELSE /\ pc = "unwound"
         /\ OneSignal(Qwrong_type_argument, <<Qcharacterp, RawInt(op.n)>>)

C5_Witness ==
  /\ pc = "unwound"
  /\ op.macro = "verify_characterp"
  /\ op.n = MAX_CHAR + 1

(* What format! gives for each input of Formats, written out.              *)
Formatted(fmtstr, args) ==
  CASE fmtstr = BadValue \o <<":", " ", "{", "}">> /\ args = <<5>> ->
         BadValue \o <<":", " ", "5">>
    [] fmtstr = <<"{", "}", "{", "}">> /\ args = <<-1, 10>> -> <<"-", "1", "1", "0">>
    [] fmtstr = <<"{", "{", "{", "}", "}", "}">> /\ args = <<120>> ->
         <<"{", "1", "2", "0", "}">>
    [] fmtstr = <<"n", "o", "{", "{">> /\ args = <<>> -> <<"n", "o", "{">>

IsBadValue5 ==
  op.fmtstr = BadValue \o <<":", " ", "{", "}">> /\ op.args = <<5>>

(* make_string was entered first, with nbytes bytes of text, and then      *)
(* Fsignal, with error and the one-element list of the string made.        *)
StringThenError(text, nbytes) ==
  /\ Len(calls) = 2
  /\ calls[1] = [prim |-> "make_string", contents |-> text, nbytes |-> nbytes]
  /\ calls[2].prim = "Fsignal"
  /\ calls[2].error_symbol = Qerror
  /\ Len(strs) = base.strs + 1
  /\ strs[Len(strs)] = text
  /\ IsList(heap, calls[2].data, <<RawStr(Len(strs))>>)
  /\ Allocated = 1

(* C6, as stated: error!("bad value: {}", 5) signals error with a string   *)
(* of content "bad value: 5" and length 13.                                *)
C6_Original ==
  (Invoked({"error_fmt"}) /\ IsBadValue5) =>
    /\ StringThenError(BadValue \o <<":", " ", "5">>, 13)
    /\ pc = "unwound"

(* C6, amended: the formatted error! formats on the Rust side, then        *)
(* signals error with a one-element list holding a string whose content is *)
(* the formatted text and whose length is the length handed to             *)
(* make_string; for ("bad value: {}", 5) that is "bad value: 5", 12 bytes. *)
C6_FormattedError ==
  Invoked({"error_fmt"}) =>
    /\ StringThenError(Formatted(op.fmtstr, op.args), Len(Formatted(op.fmtstr, op.args)))
    /\ pc = "unwound"
    /\ IsBadValue5 => calls[1].nbytes = 12 /\ Len(strs[Len(strs)]) = 12

C6_Witness ==
  /\ pc = "unwound"
  /\ op.macro = "error_fmt"
  /\ IsBadValue5

(* C7: the literal error! enters make_string exactly once, with the byte   *)
(* length of the text (9 for "bad value", no terminator), and only then    *)
(* signals error with the one-element list of the string made; it does not *)
(* return.                                                                 *)
C7_LiteralError ==
  Invoked({"error_str"}) =>
    /\ StringThenError(op.str, Len(op.str))
    /\ pc = "unwound"
    /\ op.str = BadValue => calls[1].nbytes = 9 /\ Len(strs[Len(strs)]) = 9

C7_Witness ==
  /\ pc = "unwound"
  /\ op.macro = "error_str"
  /\ op.str = BadValue

(* C8: per_buffer_var_idx! on a flag that is nil (never set) or is not a   *)
(* non-negative integer signals wrong-type-argument and yields no index;   *)
(* on a non-negative integer it yields that integer; buffer_local_flags is *)
(* never changed.                                                          *)
C8_SlotIndex ==
  /\ [](Invoked({"per_buffer_var_idx"}) =>
          LET stored == buffer_local_flags[op.field]
          IN IF stored.tag = "fixnum" /\ stored.n >= 0
             THEN pc = "returned" /\ result = stored.n /\ calls = <<>>
             ELSE /\ pc = "unwound"
                  /\ Len(calls) = 1
                  /\ calls[1].prim = "Fsignal"
                  /\ calls[1].error_symbol = Qwrong_type_argument
                  /\ result = Unit)
  /\ [][buffer_local_flags' = buffer_local_flags]_vars

C8_Witness ==
  /\ pc = "returned"
  /\ op.macro = "per_buffer_var_idx"
  /\ result = 3
  /\ \E f \in Fields : buffer_local_flags[f] \in {Qnil, RawInt(-1)}

(* C9: xsignal!(sym) does what xsignal!(sym, <empty data>) would: both     *)
(* enter Fsignal with (sym, nil), nil being what list!() yields.           *)
C9_NoDataIsEmptyData ==
  Invoked({"xsignal0"}) =>
    LET m == Entered(op.quit_returns, NoApply)
        two == xsignal(m, op.symbol, <<>>)
    IN /\ calls = two.calls
       /\ heap = two.heap
       /\ (pc = "unwound") = (two.ctl = "unwound")
       /\ calls = <<[prim |-> "Fsignal", error_symbol |-> op.symbol,
                     data |-> list(m, <<>>).val.raw]>>
       /\ calls[1].data = Qnil

C9_Witness ==
  /\ pc = "unwound"
  /\ op.macro = "xsignal0"
  /\ op.symbol = Qerror

(* C10: call_raw! on raw words enters Ffuncall with the frame, count and   *)
(* result call! gives on the same values unconverted: [f, a1, ..., an],    *)
(* count 1 + n, nothing converted; call_raw!(f) gives [f], count 1.        *)
C10_CallRawAsCall ==
  Invoked({"call_raw", "call_raw1"}) =>
    LET args == IF op.macro = "call_raw" THEN op.args ELSE <<>>
        same == call(Entered(FALSE, op.apply), [raw |-> op.func],
                     [i \in 1..Len(args) |-> [raw |-> args[i]]])
    IN /\ calls = same.calls
       /\ calls = <<[prim |-> "Ffuncall", nargs |-> 1 + Len(args),
                     args |-> <<op.func>> \o args]>>
       /\ (pc = "unwound") = (same.ctl = "unwound")
       /\ pc = "returned" => result = same.val /\ result = [raw |-> op.apply.ret]

C10_Witness ==
  /\ pc = "returned"
  /\ op.macro = "call_raw"
  /\ Len(op.args) = 2
  /\ op.args[1] # op.args[2]

====
